---- MODULE Spec2Model ----
(***************************************************************************)
(* Model of InMemoryJobRepository (src/src/repository/job_repository.rs):  *)
(* an index `jobs` (HashMap<usize, Job>) and a pending `queue`             *)
(* (VecDeque<Job>), each behind its own tokio Mutex, used concurrently by  *)
(* several callers.  Every lock acquisition of the source is one step of   *)
(* the model; the code a caller runs between two acquisitions touches only *)
(* data it holds the lock of, so it is folded into the acquiring step.  A  *)
(* call takes its first step when it gets its first lock; a caller that    *)
(* waits for that lock has had no effect yet and is modelled as idle.      *)
(***************************************************************************)
EXTENDS Integers, Sequences, FiniteSets, TLC

\* Bounds of the model.
MaxJobs == 2
NumProcs == 2

Procs == 1..NumProcs
NoProc == 0
Ids == 1..MaxJobs

\* repository/mod.rs: enum JobType, enum JobStatus
JobType == {"TimeCritical", "NotTimeCritical"}
JobStatus == {"Queued", "InProgress", "Concluded", "Cancelled"}

\* repository/mod.rs: struct Job
Job(i, t, s) == [id |-> i, job_type |-> t, status |-> s]
NoJob == Job(0, "none", "none")

VARIABLES
    jobs,        \* the index: id -> Job                       (self.jobs)
    queue,       \* the pending queue: sequence of Job copies  (self.queue)
    jobsLock,    \* holder of the Mutex around jobs, or NoProc
    queueLock,   \* holder of the Mutex around queue, or NoProc
    pc,          \* each caller's position
    job_type,    \* enqueue's argument, per caller
    id,          \* conclude / find / cancel's argument, per caller
    job,         \* enqueue's `job`, dequeue's `queued_job`, per caller
    returned,    \* the call that returned in the last step, and its value
    obs,         \* what a running call saw when it took effect (history)
    enqReturned, \* the Jobs returned by enqueue, in order of return (history)
    deqReturned, \* id -> number of dequeue calls that returned it (history)
    lastOp,      \* id -> the last call that returned Ok for that job (history)
    twin         \* a second repository, given the same calls with one type

vars == <<jobs, queue, jobsLock, queueLock, pc, job_type, id, job, returned, obs,
          enqReturned, deqReturned, lastOp, twin>>

locals == <<job_type, id, job>>
history == <<enqReturned, deqReturned, lastOp>>

\* ---------------------------------------------------------------------------
\* Return values: Result<Job, JobRepositoryError>, and stats' tuple.
\* tag is Ok or the error; id is the error's payload; counts is stats' tuple.
NoCounts == <<0, 0, 0, 0>>
NoResult == [tag |-> "none", job |-> NoJob, id |-> 0, counts |-> NoCounts]
Ok(j) == [tag |-> "Ok", job |-> j, id |-> 0, counts |-> NoCounts]
Err(e, i) == [tag |-> e, job |-> NoJob, id |-> i, counts |-> NoCounts]
StatsResult(c) == [tag |-> "Stats", job |-> NoJob, id |-> 0, counts |-> c]

\* What a call saw of the index when it took effect: the largest Queued id
\* (0 if none) and the status of the job it names ("none" if it names none);
\* and the pending queue as it was when the call took its first step.
NoObs == [maxQueued |-> 0, prevStatus |-> "none", queueBefore |-> <<>>]

\* No call returned in the last step.
NoReturn == [proc |-> NoProc, op |-> "none", job_type |-> "none", id |-> 0,
             value |-> NoResult, saw |-> NoObs]

\* ---------------------------------------------------------------------------
\* Helpers over the two collections.  Max, QueuedIds and MaxQueuedId serve the
\* history variables only: no code computes them.
Max(S) == CHOOSE x \in S : \A y \in S : y <= x

QueuedIds(j) == {i \in DOMAIN j : j[i].status = "Queued"}
MaxQueuedId(j) == IF QueuedIds(j) = {} THEN 0 ELSE Max(QueuedIds(j))
QueueIds(q) == {q[k].id : k \in 1..Len(q)}
CountStatus(j, s) == Cardinality({i \in DOMAIN j : j[i].status = s})

\* HashMap::insert: adds the key or replaces its value.
insert(j, i, v) == [k \in DOMAIN j \cup {i} |-> IF k = i THEN v ELSE j[k]]

\* enqueue, line 46: let id = jobs.len() + 1;
NextId_NoIncrement == Cardinality(DOMAIN jobs)
NextId_QueueLen == Len(queue) + 1
NextId == Cardinality(DOMAIN jobs) + 1

\* VecDeque::push_back: the entry goes to the tail.
push_front(q, j) == <<j>> \o q
push_back(q, j) == Append(q, j)

\* VecDeque::pop_back on a non-empty queue: <<the removed entry, the rest>>.
pop_front(q) == <<q[1], Tail(q)>>
pop_back_Peek(q) == <<q[Len(q)], q>>
pop_TimeCriticalFirst(q) ==
    LET S == {n \in 1..Len(q) : q[n].job_type = "TimeCritical"}
        k == IF S = {} THEN Len(q) ELSE Max(S)
    IN  <<q[k], SubSeq(q, 1, k - 1) \o SubSeq(q, k + 1, Len(q))>>
pop_back(q) == <<q[Len(q)], SubSeq(q, 1, Len(q) - 1)>>

\* VecDeque::remove(idx), idx counted from 0: out of range removes nothing.
remove(q, idx) ==
    IF idx < Len(q)
    THEN SubSeq(q, 1, idx) \o SubSeq(q, idx + 2, Len(q))
    ELSE q

\* cancel, lines 97-105: the positions collected are 0..k-1, k the number of
\* queue entries whose own status is Cancelled; each is removed in turn.
SweepIds_ByIndexStatus(q) ==
    LET k == Cardinality({n \in 1..Len(q) :
                            /\ q[n].id \in DOMAIN jobs
                            /\ jobs[q[n].id].status = "Cancelled"})
    IN  [n \in 1..k |-> n - 1]
SweepIds(q) ==
    LET k == Cardinality({n \in 1..Len(q) : q[n].status = "Cancelled"})
    IN  [n \in 1..k |-> n - 1]

RECURSIVE RemoveEach(_, _)
RemoveEach(q, idxs) ==
    IF idxs = <<>> THEN q
    ELSE RemoveEach(remove(q, Head(idxs)), Tail(idxs))

Sweep(q) == RemoveEach(q, SweepIds(q))

\* dequeue, line 63: Some(job) if job.status == JobStatus::Queued
DequeueTakes(s) == s = "Queued"

\* conclude, line 77: Some(job) if job.status == JobStatus::InProgress
ConcludeTakes_NotConcluded(s) == s # "Concluded"
ConcludeTakes_OrQueued(s) == s \in {"InProgress", "Queued"}
ConcludeTakes(s) == s = "InProgress"

\* cancel, line 110: JobStatus::Queued | JobStatus::InProgress
CancelTakes_OnlyQueued(s) == s = "Queued"
CancelTakes_AlsoCancelled(s) == s \in {"Queued", "InProgress", "Cancelled"}
CancelTakes(s) == s \in {"Queued", "InProgress"}

\* stats, lines 31-36: the closure of the fold, one job at a time
StatsStep_CancelledNotCounted(acc, s) ==
    CASE s = "Queued"     -> <<acc[1] + 1, acc[2], acc[3], acc[4]>>
      [] s = "InProgress" -> <<acc[1], acc[2] + 1, acc[3], acc[4]>>
      [] s = "Concluded"  -> <<acc[1], acc[2], acc[3] + 1, acc[4]>>
      [] OTHER            -> acc
StatsStep_InProgressAsConcluded(acc, s) ==
    CASE s = "Queued"     -> <<acc[1] + 1, acc[2], acc[3], acc[4]>>
      [] s = "InProgress" -> <<acc[1], acc[2], acc[3] + 1, acc[4]>>
      [] s = "Concluded"  -> <<acc[1], acc[2], acc[3] + 1, acc[4]>>
      [] s = "Cancelled"  -> <<acc[1], acc[2], acc[3], acc[4] + 1>>
StatsStep(acc, s) ==
    CASE s = "Queued"     -> <<acc[1] + 1, acc[2], acc[3], acc[4]>>
      [] s = "InProgress" -> <<acc[1], acc[2] + 1, acc[3], acc[4]>>
      [] s = "Concluded"  -> <<acc[1], acc[2], acc[3] + 1, acc[4]>>
      [] s = "Cancelled"  -> <<acc[1], acc[2], acc[3], acc[4] + 1>>

\* stats, lines 29-37: jobs.values().fold(...); the HashMap yields the values
\* in an order of its own.
RECURSIVE StatsFold(_, _, _)
StatsFold(j, ids, acc) ==
    IF ids = {} THEN acc
    ELSE LET i == CHOOSE x \in ids : TRUE
         IN  StatsFold(j, ids \ {i}, StatsStep(acc, j[i].status))

\* stats, lines 29-38
StatsOf(j) == StatsFold(j, DOMAIN j, NoCounts)

\* find, lines 87-92: jobs.get(&id).cloned().ok_or(NotFound(id))
find_value_FromQueue(i) ==
    IF i \in QueueIds(queue)
    THEN Ok(queue[CHOOSE k \in 1..Len(queue) : queue[k].id = i])
    ELSE IF i \in DOMAIN jobs THEN Ok(jobs[i]) ELSE Err("NotFound", i)
find_value(i) ==
    IF i \in DOMAIN jobs THEN Ok(jobs[i]) ELSE Err("NotFound", i)

\* A MutexGuard going out of scope releases the lock it guards.
Release(lock, p) == IF lock = p THEN NoProc ELSE lock

\* dequeue, line 59: the guard created in the match scrutinee is dropped at the
\* end of the match, so the caller still holds the queue lock after pop_back.
QueueGuardAfterPop_Dropped(p) == NoProc
QueueGuardAfterPop(p) == p

\* enqueue, line 52: `let mut queue = ...` keeps the guard to the end of the body.
QueueGuardAfterPush_Dropped(p) == NoProc
QueueGuardAfterPush(p) == p

\* ---------------------------------------------------------------------------
\* A second repository that receives the same calls, step for step, as the
\* one above, except that every enqueue is given the type Canon.  Its state is
\* the record w: the index, the queue, each caller's `job` / `queued_job`, and
\* the value returned in the last step.
Canon == "TimeCritical"

NoTwin == [jobs |-> <<>>, queue |-> <<>>, job |-> [p \in Procs |-> NoJob],
           value |-> NoResult]

\* enqueue, lines 45-51
Twin_enqueue_lock_jobs(w, p) ==
    [w EXCEPT !.job[p] = Job(Cardinality(DOMAIN w.jobs) + 1, Canon, "Queued"),
              !.value = NoResult]

\* enqueue, lines 52-53
Twin_enqueue_lock_queue(w, p) ==
    [w EXCEPT !.queue = push_back(w.queue, w.job[p]), !.value = NoResult]

\* enqueue, lines 54-56
Twin_enqueue_insert(w, p) ==
    [w EXCEPT !.jobs = insert(w.jobs, w.job[p].id, w.job[p]),
              !.value = Ok(w.job[p]),
              !.job[p] = NoJob]

\* dequeue, lines 59 and 70
Twin_dequeue_lock_queue(w, p) ==
    IF w.queue = <<>>
    THEN [w EXCEPT !.value = Err("Empty", 0)]
    ELSE [w EXCEPT !.queue = pop_back(w.queue)[2],
                   !.job[p] = pop_back(w.queue)[1],
                   !.value = NoResult]

\* dequeue, lines 61-68
Twin_dequeue_lock_jobs(w, p) ==
    LET i == w.job[p].id IN
    IF i \in DOMAIN w.jobs /\ DequeueTakes(w.jobs[i].status)
    THEN [w EXCEPT !.jobs[i].status = "InProgress",
                   !.value = Ok([w.jobs[i] EXCEPT !.status = "InProgress"]),
                   !.job[p] = NoJob]
    ELSE [w EXCEPT !.value = Err("Unknown", 0), !.job[p] = NoJob]

\* conclude, lines 74-84
Twin_conclude(w, i) ==
    IF i \notin DOMAIN w.jobs THEN [w EXCEPT !.value = Err("NotFound", i)]
    ELSE IF ConcludeTakes(w.jobs[i].status)
    THEN [w EXCEPT !.jobs[i].status = "Concluded",
                   !.value = Ok([w.jobs[i] EXCEPT !.status = "Concluded"])]
    ELSE [w EXCEPT !.value = Err("InvalidStatus", i)]

\* find, lines 86-93
Twin_find(w, i) ==
    [w EXCEPT !.value = IF i \in DOMAIN w.jobs THEN Ok(w.jobs[i])
                                               ELSE Err("NotFound", i)]

\* stats, lines 27-39
Twin_stats(w) == [w EXCEPT !.value = StatsResult(StatsOf(w.jobs))]

\* cancel, lines 96-105
Twin_cancel_lock_queue(w) ==
    [w EXCEPT !.queue = Sweep(w.queue), !.value = NoResult]

\* cancel, lines 106-116
Twin_cancel_lock_jobs(w, i) ==
    IF i \notin DOMAIN w.jobs THEN [w EXCEPT !.value = Err("NotFound", i)]
    ELSE IF CancelTakes(w.jobs[i].status)
    THEN [w EXCEPT !.jobs[i].status = "Cancelled",
                   !.value = Ok([w.jobs[i] EXCEPT !.status = "Cancelled"])]
    ELSE [w EXCEPT !.value = Err("InvalidStatus", i)]

\* ---------------------------------------------------------------------------
TypeOK ==
    /\ DOMAIN jobs \subseteq 0..MaxJobs
    /\ \A i \in DOMAIN jobs : jobs[i].status \in JobStatus /\ jobs[i].job_type \in JobType
    /\ jobsLock \in Procs \cup {NoProc}
    /\ queueLock \in Procs \cup {NoProc}
    /\ Len(enqReturned) <= MaxJobs

Init ==
    /\ jobs = <<>>
    /\ queue = <<>>
    /\ jobsLock = NoProc
    /\ queueLock = NoProc
    /\ pc = [p \in Procs |-> "idle"]
    /\ job_type = [p \in Procs |-> "none"]
    /\ id = [p \in Procs |-> 0]
    /\ job = [p \in Procs |-> NoJob]
    /\ returned = NoReturn
    /\ obs = [p \in Procs |-> NoObs]
    /\ enqReturned = <<>>
    /\ deqReturned = <<>>
    /\ lastOp = <<>>
    /\ twin = NoTwin

\* Number of enqueue calls made so far (returned or running).
EnqueueCalls == Len(enqReturned) + Cardinality({p \in Procs :
                    pc[p] \in {"enq_lock_queue", "enq_insert"}})

\* The call op(t) or op(i) of caller p returns r, having seen o.
Return(p, op, t, i, r, o) ==
    /\ pc' = [pc EXCEPT ![p] = "idle"]
    /\ returned' = [proc |-> p, op |-> op, job_type |-> t, id |-> i,
                    value |-> r, saw |-> o]
    /\ job_type' = [job_type EXCEPT ![p] = "none"]
    /\ id' = [id EXCEPT ![p] = 0]
    /\ job' = [job EXCEPT ![p] = NoJob]
    /\ obs' = [obs EXCEPT ![p] = NoObs]

StatusOf(j, i) == IF i \in DOMAIN j THEN j[i].status ELSE "none"
Saw(j, i) == [maxQueued |-> MaxQueuedId(j), prevStatus |-> StatusOf(j, i),
              queueBefore |-> queue]

\* ---------------------------------------------------------------------------
\* enqueue(job_type), lines 44-56
\* lines 45-51: lock jobs, compute the id, build the job
enqueue_lock_jobs(p, t) ==
    /\ pc[p] = "idle"
    /\ EnqueueCalls < MaxJobs
    /\ jobsLock = NoProc
    /\ jobsLock' = p
    /\ job_type' = [job_type EXCEPT ![p] = t]
    /\ job' = [job EXCEPT ![p] = Job(NextId, t, "Queued")]
    /\ obs' = [obs EXCEPT ![p] = Saw(jobs, 0)]
    /\ pc' = [pc EXCEPT ![p] = "enq_lock_queue"]
    /\ returned' = NoReturn
    /\ twin' = Twin_enqueue_lock_jobs(twin, p)
    /\ UNCHANGED <<jobs, queue, queueLock, id, history>>

\* lines 52-53: lock queue (jobs still locked), push_back
enqueue_lock_queue(p) ==
    /\ pc[p] = "enq_lock_queue"
    /\ queueLock = NoProc
    /\ queue' = push_back(queue, job[p])
    /\ queueLock' = QueueGuardAfterPush(p)
    /\ pc' = [pc EXCEPT ![p] = "enq_insert"]
    /\ returned' = NoReturn
    /\ twin' = Twin_enqueue_lock_queue(twin, p)
    /\ UNCHANGED <<jobs, jobsLock, job_type, id, job, obs, history>>

\* lines 54-56: insert into the index, return, drop both guards
enqueue_insert(p) ==
    /\ pc[p] = "enq_insert"
    /\ jobs' = insert(jobs, job[p].id, job[p])
    /\ enqReturned' = Append(enqReturned, job[p])
    /\ jobsLock' = Release(jobsLock, p)
    /\ queueLock' = Release(queueLock, p)
    /\ lastOp' = insert(lastOp, job[p].id, "enqueue")
    /\ Return(p, "enqueue", job_type[p], 0, Ok(job[p]), obs[p])
    /\ twin' = Twin_enqueue_insert(twin, p)
    /\ UNCHANGED <<queue, deqReturned>>

\* ---------------------------------------------------------------------------
\* dequeue(), lines 58-72
\* line 59: lock queue and pop_back; the guard is a temporary of the match
\* scrutinee, so it lives to the end of the match.  Line 70: None => Empty.
dequeue_lock_queue(p) ==
    /\ pc[p] = "idle"
    /\ queueLock = NoProc
    /\ IF queue = <<>>
       THEN /\ Return(p, "dequeue", "none", 0, Err("Empty", 0), Saw(jobs, 0))
            /\ UNCHANGED <<queue, queueLock>>
       ELSE /\ queue' = pop_back(queue)[2]
            /\ job' = [job EXCEPT ![p] = pop_back(queue)[1]]
            /\ obs' = [obs EXCEPT ![p] = Saw(jobs, pop_back(queue)[1].id)]
            /\ queueLock' = QueueGuardAfterPop(p)
            /\ pc' = [pc EXCEPT ![p] = "deq_lock_jobs"]
            /\ returned' = NoReturn
            /\ UNCHANGED <<job_type, id>>
    /\ twin' = Twin_dequeue_lock_queue(twin, p)
    /\ UNCHANGED <<jobs, jobsLock, history>>

\* lines 61-68: lock jobs (queue still locked), check and set the status
dequeue_lock_jobs(p) ==
    /\ pc[p] = "deq_lock_jobs"
    /\ jobsLock = NoProc
    /\ queueLock' = Release(queueLock, p)
    /\ LET i == job[p].id IN
       IF i \in DOMAIN jobs /\ DequeueTakes(jobs[i].status)
       THEN /\ jobs' = [jobs EXCEPT ![i].status = "InProgress"]
            /\ Return(p, "dequeue", "none", 0, Ok(jobs'[i]), obs[p])
            /\ deqReturned' = insert(deqReturned, i,
                                IF i \in DOMAIN deqReturned THEN deqReturned[i] + 1 ELSE 1)
            /\ lastOp' = insert(lastOp, i, "dequeue")
       ELSE /\ Return(p, "dequeue", "none", 0, Err("Unknown", 0), obs[p])
            /\ UNCHANGED <<jobs, deqReturned, lastOp>>
    /\ twin' = Twin_dequeue_lock_jobs(twin, p)
    /\ UNCHANGED <<queue, jobsLock, enqReturned>>

\* ---------------------------------------------------------------------------
\* conclude(id), lines 74-84: one critical section under the jobs lock
conclude(p, i) ==
    /\ pc[p] = "idle"
    /\ jobsLock = NoProc
    /\ IF i \notin DOMAIN jobs
       THEN /\ Return(p, "conclude", "none", i, Err("NotFound", i), Saw(jobs, i))
            /\ UNCHANGED <<jobs, lastOp>>
       ELSE IF ConcludeTakes(jobs[i].status)
       THEN /\ jobs' = [jobs EXCEPT ![i].status = "Concluded"]
            /\ lastOp' = insert(lastOp, i, "conclude")
            /\ Return(p, "conclude", "none", i, Ok(jobs'[i]), Saw(jobs, i))
       ELSE /\ Return(p, "conclude", "none", i, Err("InvalidStatus", i), Saw(jobs, i))
            /\ UNCHANGED <<jobs, lastOp>>
    /\ twin' = Twin_conclude(twin, i)
    /\ UNCHANGED <<queue, jobsLock, queueLock, enqReturned, deqReturned>>

\* ---------------------------------------------------------------------------
\* find(id), lines 86-93: one critical section under the jobs lock
find_Take(p, i) ==
    /\ pc[p] = "idle"
    /\ jobsLock = NoProc
    /\ Return(p, "find", "none", i, find_value(i), Saw(jobs, i))
    /\ twin' = Twin_find(twin, i)
    /\ jobs' = [k \in DOMAIN jobs \ {i} |-> jobs[k]]
    /\ UNCHANGED <<queue, jobsLock, queueLock, history>>
find(p, i) ==
    /\ pc[p] = "idle"
    /\ jobsLock = NoProc
    /\ Return(p, "find", "none", i, find_value(i), Saw(jobs, i))
    /\ twin' = Twin_find(twin, i)
    /\ UNCHANGED <<jobs, queue, jobsLock, queueLock, history>>

\* ---------------------------------------------------------------------------
\* stats(), lines 27-39: one critical section under the jobs lock
stats(p) ==
    /\ pc[p] = "idle"
    /\ jobsLock = NoProc
    /\ Return(p, "stats", "none", 0, StatsResult(StatsOf(jobs)), Saw(jobs, 0))
    /\ twin' = Twin_stats(twin)
    /\ UNCHANGED <<jobs, queue, jobsLock, queueLock, history>>

\* ---------------------------------------------------------------------------
\* cancel(id), lines 95-117
\* lines 96-105: lock queue, sweep the entries marked Cancelled
cancel_lock_queue(p, i) ==
    /\ pc[p] = "idle"
    /\ queueLock = NoProc
    /\ queueLock' = p
    /\ queue' = Sweep(queue)
    /\ id' = [id EXCEPT ![p] = i]
    /\ obs' = [obs EXCEPT ![p] = [NoObs EXCEPT !.queueBefore = queue]]
    /\ pc' = [pc EXCEPT ![p] = "cancel_lock_jobs"]
    /\ returned' = NoReturn
    /\ twin' = Twin_cancel_lock_queue(twin)
    /\ UNCHANGED <<jobs, jobsLock, job_type, job, history>>

\* lines 106-116: lock jobs (queue still locked), check and set the status
cancel_lock_jobs(p) ==
    /\ pc[p] = "cancel_lock_jobs"
    /\ jobsLock = NoProc
    /\ queueLock' = Release(queueLock, p)
    /\ LET i == id[p]
           o == [Saw(jobs, i) EXCEPT !.queueBefore = obs[p].queueBefore]
       IN
       IF i \notin DOMAIN jobs
       THEN /\ Return(p, "cancel", "none", i, Err("NotFound", i), o)
            /\ UNCHANGED <<jobs, lastOp>>
       ELSE IF CancelTakes(jobs[i].status)
       THEN /\ jobs' = [jobs EXCEPT ![i].status = "Cancelled"]
            /\ lastOp' = insert(lastOp, i, "cancel")
            /\ Return(p, "cancel", "none", i, Ok(jobs'[i]), o)
       ELSE /\ Return(p, "cancel", "none", i, Err("InvalidStatus", i), o)
            /\ UNCHANGED <<jobs, lastOp>>
    /\ twin' = Twin_cancel_lock_jobs(twin, id[p])
    /\ UNCHANGED <<queue, jobsLock, enqReturned, deqReturned>>

\* ---------------------------------------------------------------------------
Next ==
    \E p \in Procs :
        \/ \E t \in JobType : enqueue_lock_jobs(p, t)
        \/ enqueue_lock_queue(p)
        \/ enqueue_insert(p)
        \/ dequeue_lock_queue(p)
        \/ dequeue_lock_jobs(p)
        \/ \E i \in Ids : conclude(p, i)
        \/ \E i \in Ids : find(p, i)
        \/ stats(p)
        \/ \E i \in Ids : cancel_lock_queue(p, i)
        \/ cancel_lock_jobs(p)

Spec == Init /\ [][Next]_vars

\* The repository without cancel (src/src/job_repository.rs): the same
\* enqueue, dequeue, conclude, find and stats, and no other operation.
NextNoCancel ==
    \E p \in Procs :
        \/ \E t \in JobType : enqueue_lock_jobs(p, t)
        \/ enqueue_lock_queue(p)
        \/ enqueue_insert(p)
        \/ dequeue_lock_queue(p)
        \/ dequeue_lock_jobs(p)
        \/ \E i \in Ids : conclude(p, i)
        \/ \E i \in Ids : find(p, i)
        \/ stats(p)

NoCancelSpec == Init /\ [][NextNoCancel]_vars

\* The steps of a call of caller p after its first one: each waits for a lock.
Continue(p) ==
    \/ enqueue_lock_queue(p)
    \/ enqueue_insert(p)
    \/ dequeue_lock_jobs(p)
    \/ cancel_lock_jobs(p)

\* Fair scheduling of the callers and FIFO hand-off of the tokio Mutex: a
\* running call whose next step is enabled again and again takes it.
FairSpec == Spec /\ \A p \in Procs : SF_vars(Continue(p))

\* ===========================================================================
\* Properties
\* ===========================================================================

\* C1: the k-th enqueue to return its job got the id k, so the ids returned by
\* N enqueue calls are exactly 1..N, with no duplicate and no gap, in every
\* interleaving with the other calls.
C1_EnqueueIdsSequential ==
    /\ \A k \in 1..Len(enqReturned) : enqReturned[k].id = k
    /\ (returned.op = "enqueue") =>
          /\ returned.value.tag = "Ok"
          /\ returned.value.job.id = Len(enqReturned)

\* Two enqueue calls have returned, the second one in the last step.
C1_Witness ==
    /\ Len(enqReturned) = 2
    /\ returned.op = "enqueue"
    /\ returned.value.job.id = 2

\* C2: no state is reached in which an enqueue holds the index lock and waits
\* for the queue lock while a dequeue or a cancel holds the queue lock and
\* waits for the index lock (the two locks are taken in one fixed order).
C2_NoLockOrderDeadlock ==
    ~ \E p, q \in Procs :
        /\ jobsLock = p /\ pc[p] = "enq_lock_queue"
        /\ queueLock = q /\ pc[q] \in {"deq_lock_jobs", "cancel_lock_jobs"}

\* C3: no job id is returned by more than one successful dequeue.
C3_NoDoubleDequeue ==
    \A i \in DOMAIN deqReturned : deqReturned[i] <= 1

\* Two different jobs have been handed out, the second in the last step.
C3_Witness ==
    /\ Cardinality(DOMAIN deqReturned) >= 2
    /\ returned.op = "dequeue"
    /\ returned.value.tag = "Ok"

\* C4: in every step a job's status in the index stays as it is or moves
\* Queued -> InProgress in a step in which a dequeue returns, InProgress ->
\* Concluded in one in which a conclude returns, Queued or InProgress ->
\* Cancelled in one in which a cancel returns; a record enters the index as
\* Queued and never leaves it.  Concluded and Cancelled have no way out.
LegalStatusStep(i) ==
    LET a == jobs[i].status
        b == jobs'[i].status
    IN  \/ a = b
        \/ a = "Queued" /\ b = "InProgress" /\ returned'.op = "dequeue"
        \/ a = "InProgress" /\ b = "Concluded" /\ returned'.op = "conclude"
        \/ a \in {"Queued", "InProgress"} /\ b = "Cancelled" /\ returned'.op = "cancel"

C4_LegalTransitions ==
    [][ /\ DOMAIN jobs \subseteq DOMAIN jobs'
        /\ \A i \in DOMAIN jobs : LegalStatusStep(i)
        /\ \A i \in DOMAIN jobs' \ DOMAIN jobs :
              jobs'[i].status = "Queued" /\ returned'.op = "enqueue" ]_vars

\* One job has been concluded and another cancelled.
C4_Witness ==
    \E i, j \in DOMAIN jobs :
        jobs[i].status = "Concluded" /\ jobs[j].status = "Cancelled"

\* C5: when no call is running, every entry of the pending queue belongs to a
\* job whose index status is Queued.
C5_QueueEntriesAreQueued ==
    (\A p \in Procs : pc[p] = "idle") =>
        \A k \in 1..Len(queue) : StatusOf(jobs, queue[k].id) = "Queued"

\* C6: except while an enqueue that holds the queue lock is between its push
\* and its insert, every id in the pending queue is a key of the index; so
\* whatever another call sees under the queue lock is in the index.
C6_QueueIdsInIndex ==
    (~ \E p \in Procs : queueLock = p /\ pc[p] = "enq_insert") =>
        QueueIds(queue) \subseteq DOMAIN jobs

\* A cancel holds the queue lock, the index lock being free, over a queue that
\* holds the entries of two enqueue calls.
C6_Witness ==
    \E p \in Procs :
        /\ queueLock = p /\ pc[p] = "cancel_lock_jobs"
        /\ jobsLock = NoProc
        /\ Len(queue) = 2

\* C7: dequeue never returns the Unknown error.
C7_DequeueNeverUnknown ==
    ~ (returned.op = "dequeue" /\ returned.value.tag = "Unknown")

\* C8: a dequeue that returns a job returns the job with the largest id among
\* those Queued in the index when the call took its entry, with the type the
\* job was enqueued with and status InProgress.
C8_DequeueLifo ==
    (returned.op = "dequeue" /\ returned.value.tag = "Ok") =>
        LET j == returned.value.job IN
        /\ j.id = returned.saw.maxQueued
        /\ j.status = "InProgress"
        /\ \E k \in 1..Len(enqReturned) :
              enqReturned[k].id = j.id /\ enqReturned[k].job_type = j.job_type

\* After enqueue A (id 1) then enqueue B (id 2), of different types, a dequeue
\* returns B while A is still Queued.
C8_Witness ==
    /\ returned.op = "dequeue"
    /\ returned.value.tag = "Ok"
    /\ returned.value.job.id = 2
    /\ 1 \in DOMAIN jobs
    /\ jobs[1].status = "Queued"
    /\ jobs[1].job_type # jobs[2].job_type

\* C9: a dequeue that takes effect when no job of the index is Queued returns
\* the Empty error.
C9_EmptyWhenNoneQueued ==
    (returned.op = "dequeue" /\ returned.saw.maxQueued = 0) =>
        returned.value.tag = "Empty"

\* C10: when cancel(id) succeeds on a job that was Queued, the job is
\* Cancelled in the index and the pending queue holds no entry with that id.
C10_CancelRemovesEntry ==
    (returned.op = "cancel" /\ returned.value.tag = "Ok"
        /\ returned.saw.prevStatus = "Queued") =>
        /\ jobs[returned.id].status = "Cancelled"
        /\ returned.id \notin QueueIds(queue)

\* C11: conclude(id) returns Ok with the record set to Concluded exactly when
\* the job exists and was InProgress; it returns NotFound(id) when the index
\* has no such id and InvalidStatus(id) when the job was Queued, Concluded or
\* Cancelled, and then the job's record is as it was.
C11_ConcludeContract ==
    [][ (returned'.op = "conclude") =>
          LET i == returned'.id
              r == returned'.value
          IN  /\ (r.tag = "Ok") <=> (i \in DOMAIN jobs /\ jobs[i].status = "InProgress")
              /\ (r.tag = "NotFound") <=> (i \notin DOMAIN jobs)
              /\ (r.tag = "InvalidStatus") <=>
                    (i \in DOMAIN jobs /\ jobs[i].status \in {"Queued", "Concluded", "Cancelled"})
              /\ r.tag = "Ok" =>
                    /\ r.job = [jobs[i] EXCEPT !.status = "Concluded"]
                    /\ jobs' = [jobs EXCEPT ![i] = r.job]
              /\ r.tag \in {"NotFound", "InvalidStatus"} => r.id = i /\ jobs' = jobs ]_vars

\* Each outcome of conclude has been seen on the same repository: a job
\* concluded, and a conclude refused on a Queued job in the last step.
C11_Witness ==
    /\ returned.op = "conclude"
    /\ returned.value.tag = "InvalidStatus"
    /\ returned.saw.prevStatus = "Queued"
    /\ \E i \in DOMAIN jobs : jobs[i].status = "Concluded"

\* C12: cancel(id) returns Ok with the record set to Cancelled, id and type
\* unchanged, exactly when the job exists and was Queued or InProgress; it
\* returns InvalidStatus(id) when the job was Concluded or Cancelled and
\* NotFound(id) when the index has no such id.
C12_CancelContract ==
    [][ (returned'.op = "cancel") =>
          LET i == returned'.id
              r == returned'.value
          IN  /\ (r.tag = "Ok") <=>
                    (i \in DOMAIN jobs /\ jobs[i].status \in {"Queued", "InProgress"})
              /\ (r.tag = "InvalidStatus") <=>
                    (i \in DOMAIN jobs /\ jobs[i].status \in {"Concluded", "Cancelled"})
              /\ (r.tag = "NotFound") <=> (i \notin DOMAIN jobs)
              /\ r.tag = "Ok" =>
                    /\ r.job = Job(i, jobs[i].job_type, "Cancelled")
                    /\ jobs'[i] = r.job
              /\ r.tag \in {"NotFound", "InvalidStatus"} => r.id = i ]_vars

\* A cancel of an InProgress job succeeded in the last step, on a repository
\* that already holds a Cancelled job.
C12_Witness ==
    /\ returned.op = "cancel"
    /\ returned.value.tag = "Ok"
    /\ returned.saw.prevStatus = "InProgress"
    /\ \E i \in DOMAIN jobs : i # returned.id /\ jobs[i].status = "Cancelled"

\* C13: a call that returns an error leaves the index as it was, and the
\* pending queue as it was when the call took its first step.
ErrorTags == {"Empty", "Unknown", "NotFound", "InvalidStatus"}

C13_ErrorLeavesStateUnchanged ==
    [][ (returned'.value.tag \in ErrorTags) =>
          /\ jobs' = jobs
          /\ queue' = returned'.saw.queueBefore ]_vars

\* A dequeue of caller p has removed its entry from the pending queue and has
\* not yet set the job's status: the job is still Queued in the index.
InDequeueWindow(p) ==
    /\ pc[p] = "deq_lock_jobs"
    /\ StatusOf(jobs, job[p].id) = "Queued"

\* The call that returned in the last step read, under the index lock, the
\* status of job i.
ReadStatusOf(i) ==
    \/ returned.op = "stats"
    \/ returned.op \in {"find", "conclude"} /\ returned.id = i

\* C14 as claimed: no call that holds the index lock or the queue lock sees a
\* job InProgress in the index with its entry still in the pending queue, nor
\* a job still Queued in the index whose entry a running dequeue has removed.
C14_NoHalfUpdateSeen ==
    /\ \A i \in DOMAIN jobs : jobs[i].status = "InProgress" => i \notin QueueIds(queue)
    /\ \A p \in Procs : InDequeueWindow(p) =>
          ~ (returned.proc \notin {NoProc, p} /\ ReadStatusOf(job[p].id))

\* C14 as amended: no job is InProgress in the index with its entry in the
\* pending queue, and the entry of a Queued job is missing from the queue only
\* while the dequeue that removed it holds the queue lock; so no call that
\* holds the queue lock sees a half-updated state.
C14_QueueLockHolderSeesNoHalfUpdate ==
    \A i \in DOMAIN jobs :
        /\ jobs[i].status = "InProgress" => i \notin QueueIds(queue)
        /\ (jobs[i].status = "Queued" /\ i \notin QueueIds(queue)) =>
              \E p \in Procs : queueLock = p /\ InDequeueWindow(p) /\ job[p].id = i

\* A dequeue holds the queue lock, its job's entry removed and the job still
\* Queued, and a find of another caller has just returned that job as Queued.
C14_Witness ==
    \E p \in Procs :
        /\ InDequeueWindow(p)
        /\ queueLock = p
        /\ returned.proc \notin {NoProc, p}
        /\ returned.op = "find"
        /\ returned.id = job[p].id
        /\ returned.value.job.status = "Queued"

\* C15: from the step in which a dequeue removes job j's entry from the
\* pending queue to the step in which it sets j's status, no step of another
\* call changes j's record in the index or j's membership in the queue.
C15_DequeueNotInterleaved ==
    [][ \A p \in Procs :
          (pc[p] = "deq_lock_jobs" /\ pc'[p] = "deq_lock_jobs") =>
              LET j == job[p].id IN
              /\ j \in DOMAIN jobs
              /\ jobs'[j] = jobs[j]
              /\ (j \in QueueIds(queue')) <=> (j \in QueueIds(queue)) ]_vars

\* While a dequeue is between its two steps on job j, still Queued, another
\* caller's conclude(j) has just run and been refused.
C15_Witness ==
    \E p \in Procs :
        /\ InDequeueWindow(p)
        /\ returned.proc \notin {NoProc, p}
        /\ returned.op = "conclude"
        /\ returned.id = job[p].id
        /\ returned.value.tag = "InvalidStatus"

\* C16: under fair scheduling and fair lock hand-off, every call that has
\* started eventually returns: none waits for a lock forever.
C16_EveryCallReturns ==
    \A p \in Procs : (pc[p] # "idle") ~> (pc[p] = "idle")

Counts(j) == <<CountStatus(j, "Queued"), CountStatus(j, "InProgress"),
               CountStatus(j, "Concluded"), CountStatus(j, "Cancelled")>>

\* The index after the scenario: six enqueues, three dequeues (ids 6, 5, 4)
\* and the conclusion of the third job dequeued.
ScenarioJobs ==
    [i \in 1..6 |-> Job(i, "TimeCritical",
                        IF i <= 3 THEN "Queued"
                        ELSE IF i = 4 THEN "Concluded" ELSE "InProgress")]

StatusAfter(op) ==
    CASE op = "enqueue"  -> "Queued"
      [] op = "dequeue"  -> "InProgress"
      [] op = "conclude" -> "Concluded"
      [] op = "cancel"   -> "Cancelled"

\* The record enqueue returned for id i, << >> if none did.
Enqueued(i) == SelectSeq(enqReturned, LAMBDA j : j.id = i)

\* C19: find(id) returns the record with the id and the type given at enqueue
\* and the status of the latest successful transition; it returns NotFound(id)
\* exactly when no enqueue has returned that id; it changes nothing that a
\* later find depends on, so a find right after a find of the same id returns
\* the same value.
C19_FindReflectsLatest ==
    [][ returned'.op = "find" =>
          LET i == returned'.id
              v == returned'.value
          IN  /\ IF Enqueued(i) # <<>>
                 THEN v = Ok([Enqueued(i)[1] EXCEPT !.status = StatusAfter(lastOp'[i])])
                 ELSE v = Err("NotFound", i)
              /\ lastOp' = lastOp /\ enqReturned' = enqReturned
              /\ (returned.op = "find" /\ returned.id = i) => v = returned.value
      ]_vars

\* find returns a cancelled job whose entry is still in the queue
C19_Witness ==
    /\ returned.op = "find"
    /\ returned.value.tag = "Ok"
    /\ returned.value.job.status = "Cancelled"
    /\ returned.id \in QueueIds(queue)

\* C20: find and stats are read-only: the step in which either returns leaves
\* the index and the queue as they were.
C20_FindStatsReadOnly ==
    [][ returned'.op \in {"find", "stats"} => jobs' = jobs /\ queue' = queue ]_vars

\* stats returns on a repository with a job in the index and in the queue
C20_Witness ==
    /\ returned.op = "stats"
    /\ jobs # <<>>
    /\ queue # <<>>

\* C21: enqueue(type) never returns an error; the step in which it returns
\* adds to the index one record with a new id, the given type and status
\* Queued, and the pending queue is then the queue the call found with that
\* record as one more entry at its tail.  The effect is there for the very next
\* call: find(id) would return the record, stats counts one more Queued job,
\* and a dequeue that starts next takes that job's entry and, when it returns,
\* returns that job.
C21_EnqueueContract ==
    [][ /\ returned'.op = "enqueue" =>
            LET j == returned'.value.job IN
            /\ returned'.value.tag = "Ok"
            /\ j = Job(j.id, returned'.job_type, "Queued")
            /\ j.id \notin DOMAIN jobs
            /\ jobs' = insert(jobs, j.id, j)
            /\ queue' = Append(returned'.saw.queueBefore, j)
            /\ Len(queue') = Len(returned'.saw.queueBefore) + 1
            /\ StatsOf(jobs')[1] = StatsOf(jobs)[1] + 1
        /\ returned.op = "enqueue" =>
            LET j == returned.value.job IN
            /\ (returned'.op = "find" /\ returned'.id = j.id) =>
                   returned'.value = Ok(j)
            /\ returned'.op = "stats" =>
                   returned'.value.counts[1] = CountStatus(jobs, "Queued")
                       /\ jobs[j.id].status = "Queued"
            /\ \A p \in Procs :
                   (pc[p] = "idle" /\ pc'[p] = "deq_lock_jobs") =>
                       job'[p] = j /\ obs'[p].maxQueued = j.id
            /\ (returned'.op = "dequeue") => returned'.value.tag # "Empty"
      ]_vars

\* The second enqueue returns, with the other type than the first, on a queue
\* that held the first job's entry.
C21_Witness ==
    /\ returned.op = "enqueue"
    /\ returned.value.job.id = 2
    /\ returned.saw.queueBefore # <<>>
    /\ returned.job_type # jobs[1].job_type
    /\ Len(queue) = 2

\* C22: when a cancel call returns, the pending queue holds no entry of a job
\* that was Cancelled before the call: the only Cancelled job that may still
\* have an entry is the one this call has just cancelled.
C22_CancelSweepsCancelled ==
    (returned.op = "cancel") =>
        \A k \in 1..Len(queue) :
            StatusOf(jobs, queue[k].id) = "Cancelled" =>
                (returned.value.tag = "Ok" /\ returned.id = queue[k].id)

\* The entries of q that belong to jobs Queued in the index j, in q's order.
QueuedEntries(q, j) == SelectSeq(q, LAMBDA e : StatusOf(j, e.id) = "Queued")

C24_IndexOnlyGrows ==
    [][ /\ DOMAIN jobs \subseteq DOMAIN jobs'
        /\ DOMAIN jobs' # DOMAIN jobs =>
              /\ returned'.op = "enqueue"
              /\ DOMAIN jobs' = DOMAIN jobs \cup {returned'.value.job.id}
        /\ \A i \in DOMAIN jobs : jobs'[i].id = jobs[i].id
        /\ Cardinality(DOMAIN jobs') = Len(enqReturned')
        /\ DOMAIN jobs' = 1..Len(enqReturned')
        /\ (Cardinality(DOMAIN jobs') + 1) \notin DOMAIN jobs'
      ]_vars

\* The second enqueue returns after the first job was concluded or cancelled:
\* the finished job's record is still in the index.
C24_Witness ==
    /\ returned.op = "enqueue"
    /\ returned.value.job.id = 2
    /\ jobs[1].status \in {"Concluded", "Cancelled"}

\* Number of entries the queue q holds for the id i.
EntriesOf(q, i) == Cardinality({k \in 1..Len(q) : q[k].id = i})

\* C26: when no call is running, every job Queued in the index has exactly one
\* entry in the pending queue and every job InProgress or Concluded has none;
\* so the number of Queued jobs that stats reports is at most the length of
\* the pending queue.
C26_QueuedJobsAreQueuedOnce ==
    (\A p \in Procs : pc[p] = "idle") =>
        /\ \A i \in DOMAIN jobs :
              /\ jobs[i].status = "Queued" => EntriesOf(queue, i) = 1
              /\ jobs[i].status \in {"InProgress", "Concluded"} =>
                     EntriesOf(queue, i) = 0
        /\ StatsOf(jobs)[1] <= Len(queue)

\* No call is running; job 1 is Queued with its entry, job 2 is Cancelled and
\* its entry is still there: the queue is longer than the Queued jobs are many.
C26_Witness ==
    /\ \A p \in Procs : pc[p] = "idle"
    /\ DOMAIN jobs = {1, 2}
    /\ jobs[1].status = "Queued"
    /\ jobs[2].status = "Cancelled"
    /\ Len(queue) = 2

\* C27: every entry of the pending queue has the stored status Queued in every
\* state, so the filter of cancel's sweep selects no position; the first step
\* of a cancel leaves the queue as it is, and when a cancel returns, with Ok or
\* with an error, the queue is the one the call found.
C27_CancelLeavesQueue ==
    [][ /\ \A k \in 1..Len(queue) : queue[k].status = "Queued"
        /\ \A k \in 1..Len(queue') : queue'[k].status = "Queued"
        /\ SweepIds(queue) = <<>>
        /\ \A p \in Procs :
              (pc[p] = "idle" /\ pc'[p] = "cancel_lock_jobs") => queue' = queue
        /\ returned'.op = "cancel" =>
              queue' = queue /\ queue' = returned'.saw.queueBefore
      ]_vars

\* A cancel succeeds on a job whose entry is in the queue, next to the entry
\* of a job cancelled earlier.
C27_Witness ==
    /\ returned.op = "cancel"
    /\ returned.value.tag = "Ok"
    /\ Len(queue) = 2
    /\ \A k \in 1..Len(queue) : StatusOf(jobs, queue[k].id) = "Cancelled"

\* q's ids grow strictly from the front to the back.
StrictlyIncreasing(q) == \A k \in 1..(Len(q) - 1) : q[k].id < q[k + 1].id

\* C28: in every state the ids of the pending queue grow strictly from front
\* to back (so no id is there twice), and the entry a dequeue pops is the one
\* with the largest id in the queue.
C28_QueueSortedById ==
    [][ /\ StrictlyIncreasing(queue)
        /\ StrictlyIncreasing(queue')
        /\ \A p \in Procs :
              (pc[p] = "idle" /\ pc'[p] = "deq_lock_jobs") =>
                  /\ job'[p].id = Max(QueueIds(queue))
                  /\ job'[p].id \notin QueueIds(queue')
      ]_vars

\* A dequeue has popped the entry of job 2 from a queue that keeps job 1's.
C28_Witness ==
    \E p \in Procs :
        /\ pc[p] = "deq_lock_jobs"
        /\ job[p].id = 2
        /\ QueueIds(queue) = {1}

\* q without its last entry.
Front(q) == SubSeq(q, 1, Len(q) - 1)

\* C29: a dequeue returns Empty exactly when the pending queue it found had
\* no entry, and then leaves it empty; a dequeue that found an entry has
\* removed exactly the tail when it returns, with a job or with an error.
\* Each dequeue call thus shortens a non-empty queue by one, which empties a
\* queue of length n in n calls when no enqueue intervenes.
C29_DequeueRemovesTail ==
    [][ /\ returned'.op = "dequeue" =>
            LET qb == returned'.saw.queueBefore IN
            /\ (returned'.value.tag = "Empty") <=> (qb = <<>>)
            /\ qb = <<>> => queue' = <<>>
            /\ qb # <<>> => queue' = Front(qb) /\ Len(queue') = Len(qb) - 1
        /\ \A p \in Procs :
              (pc[p] = "idle" /\ pc'[p] = "deq_lock_jobs") =>
                  queue # <<>> /\ queue' = Front(queue) /\ job'[p] = queue[Len(queue)]
      ]_vars

\* Two dequeue calls have emptied a queue of two entries and the next
\* dequeue returns Empty.
C29_Witness ==
    /\ returned.op = "dequeue"
    /\ returned.value.tag = "Empty"
    /\ Cardinality(DOMAIN deqReturned) = 2

\* C30: without cancel: when no call is running, the pending queue is as long
\* as the Queued records of the index are many; dequeue never returns Unknown;
\* and a dequeue returns Empty exactly when no job was Queued as it took effect.
C30_NoCancelQueueMatchesIndex ==
    /\ (\A p \in Procs : pc[p] = "idle") =>
           Len(queue) = CountStatus(jobs, "Queued")
    /\ (returned.op = "dequeue") =>
           /\ returned.value.tag # "Unknown"
           /\ (returned.value.tag = "Empty") <=> (returned.saw.maxQueued = 0)

\* Two jobs were enqueued and dequeued, one of them concluded; the next
\* dequeue returns Empty.
C30_Witness ==
    /\ returned.op = "dequeue"
    /\ returned.value.tag = "Empty"
    /\ DOMAIN jobs = {1, 2}
    /\ \E i \in DOMAIN jobs : jobs[i].status = "Concluded"

\* A record, and a returned value, with the type replaced by Canon.
EraseJob(j) == IF j = NoJob THEN NoJob ELSE [j EXCEPT !.job_type = Canon]
EraseValue(v) == [v EXCEPT !.job = EraseJob(v.job)]

\* C25: the job type has no influence: the repository and the second one,
\* which gets the same calls in the same steps with every enqueue's type
\* replaced by one fixed type, agree in every state on everything but the
\* type fields: the value returned in the last step (ids, the job each
\* dequeue returns, errors, stats), the statuses of the index, the entries of
\* the queue and their order, and the jobs the running calls hold.  Two runs
\* that differ only in the types each agree with the second repository, and
\* so with each other.
C25_TypeHasNoInfluence ==
    /\ twin.value = EraseValue(returned.value)
    /\ DOMAIN twin.jobs = DOMAIN jobs
    /\ \A i \in DOMAIN jobs : twin.jobs[i] = EraseJob(jobs[i])
    /\ Len(twin.queue) = Len(queue)
    /\ \A k \in 1..Len(queue) : twin.queue[k] = EraseJob(queue[k])
    /\ \A p \in Procs : twin.job[p] = EraseJob(job[p])

\* Two jobs of different types are in the index and a dequeue returns the one
\* whose type is not Canon; the second repository returns the same id.
C25_Witness ==
    /\ returned.op = "dequeue"
    /\ returned.value.tag = "Ok"
    /\ returned.value.job.job_type # Canon
    /\ twin.value.job.id = returned.value.job.id
    /\ DOMAIN jobs = {1, 2}
    /\ jobs[1].job_type # jobs[2].job_type

====
